---- MODULE Spec2Model ----
(***************************************************************************)
(* A model of git-power-rs (src/src/main.rs): CommitBuffer (nonce          *)
(* placement in the commit text), run_pow (the parallel search) and main.  *)
(*                                                                         *)
(* Text is a sequence of one-character strings, one element per byte, and  *)
(* offsets are the 0-based byte offsets the Rust code uses.  The byte 0xFF *)
(* (which no valid UTF-8 text contains) is the element "0xFF".             *)
(***************************************************************************)
EXTENDS Integers, Sequences, FiniteSets, TLC

(***************************************************************************)
(* Program constants and bounds                                            *)
(***************************************************************************)
NONCE_LENGTH == 32

\* [u8; 20]: the length of a SHA-1 digest.
DIGEST_LENGTH == 20

\* u128::MAX: the code's nonces are 0..=u128::MAX, the model's 0..U128_MAX,
\* with the arithmetic of the code.
U128_MAX == 6

\* The longest input of the parse specification, in fragments.
MaxFrags == 3

Nonces == 0..U128_MAX

(***************************************************************************)
(* Text helpers: str::find, slicing, insert_str, replace_range, format!    *)
(***************************************************************************)
SetMin(S) == CHOOSE x \in S : \A y \in S : x <= y

\* s[a..b] of Rust: the bytes at offsets a, ..., b-1.
Slice(s, a, b) == SubSeq(s, a + 1, b)

\* s[a..]
SliceFrom(s, a) == SubSeq(s, a + 1, Len(s))

\* str::find(pat): the offset of the first match, or -1 for None.
Find(s, pat) ==
    LET hits == {i \in 0..(Len(s) - Len(pat)) : Slice(s, i, i + Len(pat)) = pat}
    IN  IF hits = {} THEN -1 ELSE SetMin(hits)

\* String::insert_str(at, t)
InsertStr(s, at, t) == Slice(s, 0, at) \o t \o SliceFrom(s, at)

\* String::replace_range(a..b, t)
ReplaceRange(s, a, b, t) == Slice(s, 0, a) \o t \o SliceFrom(s, b)

Digit(d) == <<"0", "1", "2", "3", "4", "5", "6", "7", "8", "9">>[d + 1]

\* format!("{}", n) of an unsigned integer: its decimal digits.
RECURSIVE Decimal(_)
Decimal(n) == IF n < 10 THEN <<Digit(n)>> ELSE Decimal(n \div 10) \o <<Digit(n % 10)>>

\* String::from_utf8 succeeds; of the modelled bytes only 0xFF is not text.
Utf8Valid(bytes) == \A i \in 1..Len(bytes) : bytes[i] # "0xFF"

NL == <<"\n">>

PGP_BEGIN == <<"-", "-", "-", "-", "-", "B", "E", "G", "I", "N", " ", "P", "G", "P", " ",
               "S", "I", "G", "N", "A", "T", "U", "R", "E", "-", "-", "-", "-", "-">>

STR_Nonce == <<"N", "o", "n", "c", "e">>

STR_nonce == <<"n", "o", "n", "c", "e">>

\* "\nNonce: " and "\nnonce ", the text inserted for a new field.
INS_Nonce == <<"\n", "N", "o", "n", "c", "e", ":", " ">>

INS_nonce == <<"\n", "n", "o", "n", "c", "e", " ">>

\* "AAAAAAAAAAAAAAAAAAAAAAAAAAAAAAAA"
INITIAL_NONCE == [i \in 1..32 |-> "A"]

ALPHABET == <<"A", "B", "C", "D", "E", "F", "G", "H", "I", "J", "K", "L", "M", "N", "O", "P">>

(***************************************************************************)
(* CommitBuffer                                                            *)
(***************************************************************************)
\* A value of Result<CommitBuffer>, or the panic of an out-of-range slice.
OkBuffer(buf, header_len, nonce_start, nonce_end) ==
    [tag |-> "Ok", buf |-> buf, header_len |-> header_len,
     nonce_start |-> nonce_start, nonce_end |-> nonce_end, err |-> ""]

ErrBuffer(msg) ==
    [tag |-> "Err", buf |-> <<>>, header_len |-> 0,
     nonce_start |-> 0, nonce_end |-> 0, err |-> msg]

PanicBuffer ==
    [tag |-> "Panic", buf |-> <<>>, header_len |-> 0,
     nonce_start |-> 0, nonce_end |-> 0, err |-> "slice index out of range"]

\* `let start = match buf.find(...)`: where the nonce value starts, with the
\* buffer after the insertion of a new field.  start = -1 with err set is `?`.
NonceStart(buf) ==
    LET pgp_idx == Find(buf, PGP_BEGIN)
    IN  IF pgp_idx # -1
        THEN LET idx == Find(SliceFrom(buf, pgp_idx), STR_Nonce)
             IN  IF idx # -1
                 THEN [buf |-> buf, start |-> pgp_idx + idx + 7, err |-> ""]
                 ELSE LET nl == Find(SliceFrom(buf, pgp_idx), <<"\n", " ">>)
                          pgp_header_end == pgp_idx + nl
                      IN  IF nl = -1
                          THEN [buf |-> buf, start |-> -1, err |-> "Malformed PGP header"]
                          ELSE [buf |-> InsertStr(buf, pgp_header_end, INS_Nonce),
                                start |-> pgp_header_end + 8, err |-> ""]
        ELSE LET header_end == Find(buf, <<"\n", "\n">>)
             IN  IF header_end = -1
                 THEN [buf |-> buf, start |-> -1, err |-> "Malformed commit"]
                 ELSE LET idx == Find(buf, STR_nonce)
                      IN  IF idx # -1
                          THEN [buf |-> buf, start |-> idx + 6, err |-> ""]
                          ELSE [buf |-> InsertStr(buf, header_end, INS_nonce),
                                start |-> header_end + 7, err |-> ""]

\* The end of the window left where it was before the header was prepended.
PrependHeaderEndUnshifted(buf, start) ==
    LET commit_header == <<"c", "o", "m", "m", "i", "t", " ">> \o Decimal(Len(buf)) \o <<"\\0">>
        header_len == Len(commit_header)
    IN  OkBuffer(commit_header \o buf, header_len,
                 start + header_len, start + NONCE_LENGTH)

\* The prepended object header and the offsets, shifted by its length.
PrependHeader(buf, start) ==
    LET commit_header == <<"c", "o", "m", "m", "i", "t", " ">> \o Decimal(Len(buf)) \o <<"\\0">>
        header_len == Len(commit_header)
    IN  OkBuffer(commit_header \o buf, header_len,
                 start + header_len, start + NONCE_LENGTH + header_len)

\* The initial value written over the line whatever its width.
InitialNonceAlways(buf, start) ==
    IF start > Len(buf)
    THEN PanicBuffer
    ELSE LET nl == Find(SliceFrom(buf, start), NL)
             line_end == start + nl
         IN  IF nl = -1
             THEN ErrBuffer("Malformed Nonce")
             ELSE PrependHeader(ReplaceRange(buf, start, line_end, INITIAL_NONCE), start)

\* The initial value of the nonce: the line from start is replaced unless it
\* is NONCE_LENGTH wide already.  buf[start..] panics when start > buf.len().
InitialNonce(buf, start) ==
    IF start > Len(buf)
    THEN PanicBuffer
    ELSE LET nl == Find(SliceFrom(buf, start), NL)
             line_end == start + nl
         IN  IF nl = -1
             THEN ErrBuffer("Malformed Nonce")
             ELSE IF line_end - start # NONCE_LENGTH
                  THEN PrependHeader(ReplaceRange(buf, start, line_end, INITIAL_NONCE), start)
                  ELSE PrependHeader(buf, start)

\* CommitBuffer::new
New(bytes) ==
    IF ~Utf8Valid(bytes)
    THEN ErrBuffer("FromUtf8Error")
    ELSE LET s == NonceStart(bytes)
         IN  IF s.start = -1 THEN ErrBuffer(s.err) ELSE InitialNonce(s.buf, s.start)

\* nibble i of val: (val >> (4 * i)) & 0xF
RECURSIVE Nibble(_, _)
Nibble(val, i) == IF i = 0 THEN val % 16 ELSE Nibble(val \div 16, i - 1)

\* The nibbles written in the order the loop takes them: nonce_bytes[i].
NonceBytesLeastFirst(val) == [j \in 1..NONCE_LENGTH |-> ALPHABET[Nibble(val, j - 1) + 1]]

\* nonce_bytes of write_nonce: nonce_bytes[31 - i] = b'A' + nibble i.
NonceBytes(val) == [j \in 1..NONCE_LENGTH |-> ALPHABET[Nibble(val, NONCE_LENGTH - j) + 1]]

\* The copy placed one byte early: over buf[nonce_start - 1..nonce_end - 1].
WriteNonceOneEarly(c, val) ==
    LET nonce_bytes == NonceBytes(val)
    IN  [c EXCEPT !.buf = [k \in 1..Len(c.buf) |->
                              IF k >= c.nonce_start /\ k < c.nonce_end
                              THEN nonce_bytes[k - c.nonce_start + 1]
                              ELSE c.buf[k]]]

\* CommitBuffer::write_nonce: copy_from_slice over buf[nonce_start..nonce_end].
WriteNonce(c, val) ==
    LET nonce_bytes == NonceBytes(val)
    IN  [c EXCEPT !.buf = [k \in 1..Len(c.buf) |->
                              IF k > c.nonce_start /\ k <= c.nonce_end
                              THEN nonce_bytes[k - c.nonce_start]
                              ELSE c.buf[k]]]

\* CommitBuffer::data
Data(c) == SliceFrom(c.buf, c.header_len)

\* The bytes a thread's hasher takes for the buffer c: commit.buf[..nonce_start]
\* by the cached hasher, then commit.buf[nonce_start..] by its clone.
HashedBytes(c) == Slice(c.buf, 0, c.nonce_start) \o SliceFrom(c.buf, c.nonce_start)

(***************************************************************************)
(* SHA-1 and num_leading_zero_bits                                         *)
(***************************************************************************)
\* u8::leading_zeros
LeadingZeros8(byte) ==
    IF byte = 0 THEN 8
    ELSE IF byte >= 128 THEN 0
    ELSE IF byte >= 64 THEN 1
    ELSE IF byte >= 32 THEN 2
    ELSE IF byte >= 16 THEN 3
    ELSE IF byte >= 8 THEN 4
    ELSE IF byte >= 4 THEN 5
    ELSE IF byte >= 2 THEN 6
    ELSE 7

\* The loop with no break: the zeros of every byte are added.
RECURSIVE ZeroBitsFromNoBreak(_, _, _)
ZeroBitsFromNoBreak(hash, k, zeros) ==
    IF k > Len(hash) THEN zeros
    ELSE ZeroBitsFromNoBreak(hash, k + 1, zeros + LeadingZeros8(hash[k]))

\* The loop of num_leading_zero_bits from byte k on, zeros counted so far.
RECURSIVE ZeroBitsFrom(_, _, _)
ZeroBitsFrom(hash, k, zeros) ==
    IF k > Len(hash) THEN zeros
    ELSE IF hash[k] # 0 THEN zeros + LeadingZeros8(hash[k])
    ELSE ZeroBitsFrom(hash, k + 1, zeros + LeadingZeros8(hash[k]))

num_leading_zero_bits(hash) == ZeroBitsFrom(hash, 1, 0)

\* A digest with exactly k leading zero bits (k <= 8 * DIGEST_LENGTH).
DigestWithZeros(k) ==
    [j \in 1..DIGEST_LENGTH |->
        IF j <= k \div 8 THEN 0
        ELSE IF j = (k \div 8) + 1 THEN 2^(7 - (k % 8))
        ELSE 255]

\* The leading-zero counts of the digests SHA-1 is let to produce.
ZeroLevels == {0, 3, 9}

\* SHA-1 is a function of the bytes hashed and nothing else is known of it:
\* the digest of bytes that are hashed once is any of these.
Digests == {DigestWithZeros(k) : k \in ZeroLevels}

\* The digest of the buffer that carries the nonce u128::MAX.  No run hashes
\* that buffer, so any digest is consistent with every run; it is taken to be
\* one with 9 leading zero bits.
SHA1_OF_LAST == DigestWithZeros(9)

(***************************************************************************)
(* State                                                                   *)
(***************************************************************************)
VARIABLES
    input,       \* the bytes odb.read returns for the head commit
    bits,        \* config.bits
    threads,     \* config.threads, or num_cpus::get() as u8
    pcMain,      \* where main (and run_pow, which it calls) stands
    commit,      \* the Result of CommitBuffer::new
    spawned,     \* i of `for i in 0..num_threads`
    worker,      \* the worker threads: worker[i] is the state of thread i
    stop,        \* AtomicBool
    num_hashes,  \* AtomicU64
    max_zeros,   \* AtomicU16
    chan,        \* the messages sent on tx and not yet received on rx
    rxAlive,     \* rx is not dropped
    result,      \* what run_pow returned
    reported,    \* the attempt count run_pow printed
    odb,         \* the objects written to the object store
    head,        \* the repository's HEAD: ORIG_HEAD, or the digest it was moved to
    printed,     \* the num_zeros of the "Found ..." lines the coordinator printed
    pInput,      \* parse specification: the bytes given to CommitBuffer::new
    pStage,      \* parse specification: "input", "parsed", "reparsed"
    pCommit,     \* parse specification: the buffer, through new and write_nonce
    pWritten,    \* parse specification: write_nonce calls made on pCommit
    pReparsed,   \* parse specification: CommitBuffer::new(pCommit.data())
    cStage,      \* codec specification: "input", "written"
    cVal,        \* codec specification: the two values given to write_nonce
    cOther,
    cStr,        \* codec specification: the nonce_bytes of cVal and of cOther
    cOtherStr,
    zStage,      \* scorer specification: "input", "scored"
    zHash,       \* scorer specification: the digest given to num_leading_zero_bits
    zZeros       \* scorer specification: what num_leading_zero_bits returned

confVars == <<input, bits, threads>>

mainVars == <<pcMain, commit, spawned, result, reported, odb, head, printed>>

sharedVars == <<stop, num_hashes, max_zeros, chan, rxAlive>>

parseVars == <<pInput, pStage, pCommit, pWritten, pReparsed>>

fnVars == <<cStage, cVal, cOther, cStr, cOtherStr, zStage, zHash, zZeros>>

vars == <<confVars, mainVars, worker, sharedVars, parseVars, fnVars>>

(***************************************************************************)
(* The inputs of the parse specification: every concatenation of at most   *)
(* MaxFrags of these fragments.                                            *)
(***************************************************************************)
\* a metadata line
F_tree == <<"t", "r", "e", "e", " ", "1", "\n">>

\* an empty line: after a line it makes the blank-line separator
F_blank == <<"\n">>

\* a nonce field that is 32 wide already
F_field32 == <<"n", "o", "n", "c", "e", " ", "0", "1", "2", "3", "4", "5", "6", "7", "8", "9",
               "a", "b", "c", "d", "e", "f", "0", "1", "2", "3", "4", "5", "6",
               "7", "8", "9", "a", "b", "c", "d", "e", "f", "\n">>

\* a nonce field of another width
F_fieldShort == <<"n", "o", "n", "c", "e", " ", "A", "B", "\n">>

\* a signature armor block, as git stores it in a commit
F_sig == <<"g", "p", "g", "s", "i", "g", " ", "-", "-", "-", "-", "-", "B", "E", "G", "I",
           "N", " ", "P", "G", "P", " ", "S", "I", "G", "N", "A", "T", "U", "R",
           "E", "-", "-", "-", "-", "-", "\n", " ", "\n", " ", "i", "Q", "\n", " ",
           "-", "-", "-", "-", "-", "E", "N", "D", " ", "P", "G", "P", " ", "S",
           "I", "G", "N", "A", "T", "U", "R", "E", "-", "-", "-", "-", "-", "\n">>

\* an armor block that carries a Nonce header
F_sigNonce == <<"g", "p", "g", "s", "i", "g", " ", "-", "-", "-", "-", "-", "B", "E", "G", "I",
                "N", " ", "P", "G", "P", " ", "S", "I", "G", "N", "A", "T", "U",
                "R", "E", "-", "-", "-", "-", "-", "\n", "N", "o", "n", "c", "e",
                ":", " ", "C", "D", "\n", " ", "\n", " ", "i", "Q", "\n", " ", "-",
                "-", "-", "-", "-", "E", "N", "D", " ", "P", "G", "P", " ", "S",
                "I", "G", "N", "A", "T", "U", "R", "E", "-", "-", "-", "-", "-",
                "\n">>

\* a line of text that mentions the words
F_mention == <<"A", "d", "d", " ", "N", "o", "n", "c", "e", ",", " ", "n", "o", "n", "c", "e",
               " ", "x", "\n">>

\* text that ends the buffer with no newline
F_tail == <<"n", "o", "n", "c", "e", " ", "N", "o", "n", "c", "e">>

\* a byte that is not text
F_bad == <<"0xFF">>

Fragments == {F_tree, F_blank, F_field32, F_fieldShort, F_sig, F_sigNonce, F_mention, F_tail, F_bad}

\* The values the parse specification writes with write_nonce.
WriteSamples == {0, 1, U128_MAX}

RECURSIVE Concat(_)
Concat(fs) == IF fs = <<>> THEN <<>> ELSE Head(fs) \o Concat(Tail(fs))

ParseInputs == {Concat(fs) : fs \in UNION {[1..k -> Fragments] : k \in 0..MaxFrags}}

\* What run_pow and main hold while only CommitBuffer is exercised, and the
\* parse variables while main runs.
NoBuffer == ErrBuffer("")

(***************************************************************************)
(* The parse specification: CommitBuffer::new on any input, any number of  *)
(* write_nonce calls on the result, and CommitBuffer::new on its data().   *)
(***************************************************************************)
PNew ==
    /\ pStage = "input"
    /\ pCommit' = New(pInput)
    /\ pStage' = "parsed"
    /\ UNCHANGED <<pInput, pWritten, pReparsed>>
    /\ UNCHANGED <<confVars, mainVars, worker, sharedVars, fnVars>>

PWriteNonce ==
    /\ pStage = "parsed"
    /\ pCommit.tag = "Ok"
    /\ \E val \in WriteSamples :
          /\ pCommit' = WriteNonce(pCommit, val)
          /\ pWritten' = val
    /\ UNCHANGED <<pInput, pStage, pReparsed>>
    /\ UNCHANGED <<confVars, mainVars, worker, sharedVars, fnVars>>

PReparse ==
    /\ pStage = "parsed"
    /\ pCommit.tag = "Ok"
    /\ pReparsed' = New(Data(pCommit))
    /\ pStage' = "reparsed"
    /\ UNCHANGED <<pInput, pCommit, pWritten>>
    /\ UNCHANGED <<confVars, mainVars, worker, sharedVars, fnVars>>

ParseNext == PNew \/ PWriteNonce \/ PReparse

(***************************************************************************)
(* The codec specification: write_nonce on two values, and the scorer      *)
(* specification: num_leading_zero_bits on a digest.                       *)
(***************************************************************************)
\* The values written are below 16^CodecNibbles.
CodecNibbles == 6

\* The values given to write_nonce: the sums of two nibbles of these, each at
\* any place below CodecNibbles, and the largest value.
NibbleSamples == {0, 1, 9, 15}

CodecValues ==
    {v \in {a * 16^p + b * 16^q : a \in NibbleSamples, b \in NibbleSamples,
                                  p \in 0..(CodecNibbles - 1), q \in 0..(CodecNibbles - 1)} :
        v < 16^CodecNibbles}
    \cup {16^CodecNibbles - 1}

\* The values the second call is given.
CodecOthers == {a * 16^p : a \in NibbleSamples, p \in 0..(CodecNibbles - 1)}
               \cup {16^CodecNibbles - 1}

\* The buffer write_nonce is called on.
CodecBuffer == New(Concat(<<F_tree, F_blank, F_tree>>))

\* What the nonce window holds after commit.write_nonce(val).
Written(val) ==
    LET c == WriteNonce(CodecBuffer, val)
    IN  Slice(c.buf, c.nonce_start, c.nonce_end)

CWrite ==
    /\ cStage = "input"
    /\ cStr' = Written(cVal)
    /\ cOtherStr' = Written(cOther)
    /\ cStage' = "written"
    /\ UNCHANGED <<cVal, cOther, zStage, zHash, zZeros>>
    /\ UNCHANGED <<confVars, mainVars, worker, sharedVars, parseVars>>

CodecNext == CWrite

\* The digests given to num_leading_zero_bits: z zero bytes, then any nonzero
\* byte, then bytes that are all 0 or all 255; and the digest of zero bytes.
FillBytes == {0, 255}

ScoreDigests ==
    {[j \in 1..DIGEST_LENGTH |-> IF j <= z THEN 0 ELSE IF j = z + 1 THEN b ELSE f] :
        z \in 0..(DIGEST_LENGTH - 1), b \in 1..255, f \in FillBytes}
    \cup {[j \in 1..DIGEST_LENGTH |-> 0]}

ZScore ==
    /\ zStage = "input"
    /\ zZeros' = num_leading_zero_bits(zHash)
    /\ zStage' = "scored"
    /\ UNCHANGED <<cStage, cVal, cOther, cStr, cOtherStr, zHash>>
    /\ UNCHANGED <<confVars, mainVars, worker, sharedVars, parseVars>>

ScoreNext == ZScore

(***************************************************************************)
(* run_pow and main                                                        *)
(***************************************************************************)
\* config.threads (u8) and config.bits (u16) as given on the command line.
ThreadChoices == {1, 2}

BitsChoices == {0, 8}

\* What odb.read returns: a plain commit, one with no blank line, not text.
MainInputs == {Concat(<<F_tree, F_blank, F_tree>>), F_tree, F_bad}

\* let chunk_size = u128::MAX / num_threads
chunk_size(num_threads) == U128_MAX \div num_threads

\* i * chunk_size..(i + 1) * chunk_size, the range of thread i
RangeOf(i, num_threads) ==
    [lo |-> i * chunk_size(num_threads), hi |-> (i + 1) * chunk_size(num_threads)]

InRange(n, r) == r.lo <= n /\ n < r.hi

NoDigest == <<>>

\* HEAD as main finds it: the commit read from the repository.
ORIG_HEAD == <<>>

\* A thread that is not spawned yet.  The fields from late on are not of the
\* code, they record what the thread did: late and after count the iterations
\* it began, and the hashes it computed, while the stop flag was set; iters
\* the iterations that passed the flag check; hashed the digests it computed;
\* best the highest num_zeros of its earlier iterations; sent whether it sent
\* an Update in this iteration.
IdleWorker ==
    [pc |-> "unspawned", nonce |-> 0, last |-> 0, commit |-> NoBuffer,
     hasher |-> <<>>, fed |-> <<>>, hash |-> NoDigest, num_zeros |-> 0,
     late |-> 0, after |-> 0, iters |-> 0, hashed |-> 0, best |-> 0, sent |-> FALSE]

\* PowMessage::Update(hash, num_zeros); fed is the bytes hash is the digest of
\* and at the number of digests all threads had computed when it was sent.
Update(hash, num_zeros) ==
    [type |-> "Update", hash |-> hash, num_zeros |-> num_zeros,
     commit |-> NoBuffer, fed |-> <<>>, at |-> 0]

\* PowMessage::Done(commit, hash)
Done(c, hash, fed, at) ==
    [type |-> "Done", hash |-> hash, num_zeros |-> 0, commit |-> c, fed |-> fed, at |-> at]

NoResult == Update(NoDigest, 0)

\* The digests all threads have computed so far.
RECURSIVE HashedBelow(_)
HashedBelow(n) == IF n = 0 THEN 0 ELSE worker[n - 1].hashed + HashedBelow(n - 1)

TotalHashed == HashedBelow(threads)

Workers == 0..(threads - 1)

\* main has not returned: the process, and with it every thread, lives.
Running == pcMain \notin {"exit_ok", "exit_err"}

ParseIdle ==
    /\ pInput = <<>>
    /\ pStage = "off"
    /\ pCommit = NoBuffer
    /\ pWritten = -1
    /\ pReparsed = NoBuffer

FnIdle ==
    /\ cStage = "off"
    /\ cVal = 0
    /\ cOther = 0
    /\ cStr = <<>>
    /\ cOtherStr = <<>>
    /\ zStage = "off"
    /\ zHash = NoDigest
    /\ zZeros = 0

MainIdle ==
    /\ pcMain = "open"
    /\ commit = NoBuffer
    /\ spawned = 0
    /\ worker = [i \in 0..(threads - 1) |-> IdleWorker]
    /\ stop = FALSE
    /\ num_hashes = 0
    /\ max_zeros = 0
    /\ chan = <<>>
    /\ rxAlive = TRUE
    /\ result = NoResult
    /\ reported = -1
    /\ odb = {}
    /\ head = ORIG_HEAD
    /\ printed = <<>>

Init ==
    /\ input \in MainInputs
    /\ bits \in BitsChoices
    /\ threads \in ThreadChoices
    /\ MainIdle
    /\ ParseIdle
    /\ FnIdle

ParseInit ==
    /\ pInput \in ParseInputs
    /\ pStage = "input"
    /\ pCommit = NoBuffer
    /\ pWritten = -1
    /\ pReparsed = NoBuffer
    /\ input = <<>>
    /\ bits = 0
    /\ threads = 1
    /\ MainIdle
    /\ FnIdle

CodecInit ==
    /\ cStage = "input"
    /\ cVal \in CodecValues
    /\ cOther \in CodecOthers
    /\ cStr = <<>>
    /\ cOtherStr = <<>>
    /\ zStage = "off"
    /\ zHash = NoDigest
    /\ zZeros = 0
    /\ input = <<>>
    /\ bits = 0
    /\ threads = 1
    /\ MainIdle
    /\ ParseIdle

ScoreInit ==
    /\ zStage = "input"
    /\ zHash \in ScoreDigests
    /\ zZeros = 0
    /\ cStage = "off"
    /\ cVal = 0
    /\ cOther = 0
    /\ cStr = <<>>
    /\ cOtherStr = <<>>
    /\ input = <<>>
    /\ bits = 0
    /\ threads = 1
    /\ MainIdle
    /\ ParseIdle

\* Repository::open, repo.head, peel_to_commit, repo.odb, odb.read: each `?`.
MainOpen ==
    /\ pcMain = "open"
    /\ \E ok \in BOOLEAN : pcMain' = IF ok THEN "parse" ELSE "exit_err"
    /\ UNCHANGED <<commit, spawned, result, reported, odb, head, printed>>
    /\ UNCHANGED <<confVars, worker, sharedVars, parseVars, fnVars>>

\* let buf = CommitBuffer::new(...)?
MainParse ==
    /\ pcMain = "parse"
    /\ commit' = New(input)
    /\ pcMain' = IF commit'.tag = "Ok" THEN "spawn" ELSE "exit_err"
    /\ UNCHANGED <<spawned, result, reported, odb, head, printed>>
    /\ UNCHANGED <<confVars, worker, sharedVars, parseVars, fnVars>>

\* One turn of `for i in 0..num_threads`: thread i is spawned with a clone of
\* the buffer and its range.
Spawn ==
    /\ pcMain = "spawn"
    /\ spawned < threads
    /\ worker' = [worker EXCEPT ![spawned] =
                    [@ EXCEPT !.pc = "start",
                              !.commit = commit,
                              !.nonce = RangeOf(spawned, threads).lo,
                              !.last = RangeOf(spawned, threads).hi]]
    /\ spawned' = spawned + 1
    /\ pcMain' = IF spawned + 1 = threads THEN "recv" ELSE "spawn"
    /\ UNCHANGED <<commit, result, reported, odb, head, printed>>
    /\ UNCHANGED <<confVars, sharedVars, parseVars, fnVars>>

\* The cached hasher fed through the end of the nonce window.
WorkerStartCachesWindow(i) ==
    /\ Running
    /\ worker[i].pc = "start"
    /\ worker' = [worker EXCEPT ![i] =
                    [@ EXCEPT !.pc = "check",
                              !.hasher = Slice(worker[i].commit.buf, 0, worker[i].commit.nonce_end)]]
    /\ UNCHANGED <<confVars, mainVars, sharedVars, parseVars, fnVars>>

\* let mut hasher = Sha1::new(); hasher.update(&commit.buf[..commit.nonce_start])
WorkerStart(i) ==
    /\ Running
    /\ worker[i].pc = "start"
    /\ worker' = [worker EXCEPT ![i] =
                    [@ EXCEPT !.pc = "check",
                              !.hasher = Slice(worker[i].commit.buf, 0, worker[i].commit.nonce_start)]]
    /\ UNCHANGED <<confVars, mainVars, sharedVars, parseVars, fnVars>>

\* The loop with the flag check left out: a thread stops only at the end of
\* its range.
WorkerCheckStopNever(i) ==
    /\ Running
    /\ worker[i].pc = "check"
    /\ LET to == IF worker[i].nonce >= worker[i].last THEN "exited" ELSE "add"
       IN  worker' = [worker EXCEPT ![i] =
                        [@ EXCEPT !.pc = to,
                                  !.iters = IF to = "add" THEN @ + 1 ELSE @,
                                  !.late = IF to = "add" /\ stop THEN @ + 1 ELSE @]]
    /\ UNCHANGED <<confVars, mainVars, sharedVars, parseVars, fnVars>>

\* The head of the for loop and `if stop.load(Ordering::Relaxed) { break; }`.
WorkerCheckStop(i) ==
    /\ Running
    /\ worker[i].pc = "check"
    /\ LET to == IF worker[i].nonce >= worker[i].last THEN "exited"
                 ELSE IF stop THEN "exited"
                 ELSE "add"
       IN  worker' = [worker EXCEPT ![i] =
                        [@ EXCEPT !.pc = to,
                                  !.iters = IF to = "add" THEN @ + 1 ELSE @,
                                  !.late = IF to = "add" /\ stop THEN @ + 1 ELSE @]]
    /\ UNCHANGED <<confVars, mainVars, sharedVars, parseVars, fnVars>>

\* The counter stored from the thread's own count, not added to.
WorkerCountHashStore(i) ==
    /\ Running
    /\ worker[i].pc = "add"
    /\ num_hashes' = worker[i].hashed + 1
    /\ worker' = [worker EXCEPT ![i].pc = "hash"]
    /\ UNCHANGED <<stop, max_zeros, chan, rxAlive>>
    /\ UNCHANGED <<confVars, mainVars, parseVars, fnVars>>

\* num_hashes.fetch_add(1, Ordering::Relaxed)
WorkerCountHash(i) ==
    /\ Running
    /\ worker[i].pc = "add"
    /\ num_hashes' = num_hashes + 1
    /\ worker' = [worker EXCEPT ![i].pc = "hash"]
    /\ UNCHANGED <<stop, max_zeros, chan, rxAlive>>
    /\ UNCHANGED <<confVars, mainVars, parseVars, fnVars>>

\* commit.write_nonce(nonce); the clone of the cached hasher takes
\* commit.buf[commit.nonce_start..] and is finalized; num_leading_zero_bits.
WorkerHash(i) ==
    /\ Running
    /\ worker[i].pc = "hash"
    /\ \E digest \in Digests :
         LET c == WriteNonce(worker[i].commit, worker[i].nonce)
         IN  worker' = [worker EXCEPT ![i] =
                          [@ EXCEPT !.pc = "loadmax",
                                    !.commit = c,
                                    !.fed = worker[i].hasher \o SliceFrom(c.buf, c.nonce_start),
                                    !.hash = digest,
                                    !.num_zeros = num_leading_zero_bits(digest),
                                    !.after = IF stop THEN @ + 1 ELSE @,
                                    !.hashed = @ + 1,
                                    !.best = IF worker[i].num_zeros > @
                                             THEN worker[i].num_zeros ELSE @,
                                    !.sent = FALSE]]
    /\ UNCHANGED <<confVars, mainVars, sharedVars, parseVars, fnVars>>

\* if num_zeros > max_zeros.load(Ordering::Relaxed)
WorkerLoadMax(i) ==
    /\ Running
    /\ worker[i].pc = "loadmax"
    /\ worker' = [worker EXCEPT ![i].pc =
                    IF worker[i].num_zeros > max_zeros THEN "send" ELSE "target"]
    /\ UNCHANGED <<confVars, mainVars, sharedVars, parseVars, fnVars>>

\* tx.send(PowMessage::Update(hash, num_zeros))?: an error, which ends the
\* thread, once rx is dropped.
WorkerSendUpdate(i) ==
    /\ Running
    /\ worker[i].pc = "send"
    /\ IF rxAlive
       THEN /\ chan' = Append(chan, Update(worker[i].hash, worker[i].num_zeros))
            /\ worker' = [worker EXCEPT ![i].pc = "store", ![i].sent = TRUE]
       ELSE /\ chan' = chan
            /\ worker' = [worker EXCEPT ![i].pc = "exited"]
    /\ UNCHANGED <<stop, num_hashes, max_zeros, rxAlive>>
    /\ UNCHANGED <<confVars, mainVars, parseVars, fnVars>>

\* max_zeros.store(num_zeros, Ordering::Relaxed)
WorkerStoreMax(i) ==
    /\ Running
    /\ worker[i].pc = "store"
    /\ max_zeros' = worker[i].num_zeros
    /\ worker' = [worker EXCEPT ![i].pc = "target"]
    /\ UNCHANGED <<stop, num_hashes, chan, rxAlive>>
    /\ UNCHANGED <<confVars, mainVars, parseVars, fnVars>>

\* The win condition tested against the best count so far, not the target.
WorkerTargetBest(i) ==
    /\ Running
    /\ worker[i].pc = "target"
    /\ IF worker[i].num_zeros >= max_zeros
       THEN /\ chan' = IF rxAlive
                       THEN Append(chan, Done(worker[i].commit, worker[i].hash, worker[i].fed,
                                                 TotalHashed))
                       ELSE chan
            /\ worker' = [worker EXCEPT ![i].pc = "exited"]
       ELSE /\ chan' = chan
            /\ worker' = [worker EXCEPT ![i].pc = "check", ![i].nonce = @ + 1]
    /\ UNCHANGED <<stop, num_hashes, max_zeros, rxAlive>>
    /\ UNCHANGED <<confVars, mainVars, parseVars, fnVars>>

\* if num_zeros >= target_zeros { tx.send(PowMessage::Done(commit, hash))?; break; }
\* and otherwise the next nonce of the range.
WorkerTarget(i) ==
    /\ Running
    /\ worker[i].pc = "target"
    /\ IF worker[i].num_zeros >= bits
       THEN /\ chan' = IF rxAlive
                       THEN Append(chan, Done(worker[i].commit, worker[i].hash, worker[i].fed,
                                                 TotalHashed))
                       ELSE chan
            /\ worker' = [worker EXCEPT ![i].pc = "exited"]
       ELSE /\ chan' = chan
            /\ worker' = [worker EXCEPT ![i].pc = "check", ![i].nonce = @ + 1]
    /\ UNCHANGED <<stop, num_hashes, max_zeros, rxAlive>>
    /\ UNCHANGED <<confVars, mainVars, parseVars, fnVars>>

\* The senders that live: run_pow's own tx, which it never drops while it
\* waits, and the clone of each thread that has not ended.
LiveSenders ==
    (IF pcMain \in {"spawn", "recv", "report"} THEN 1 ELSE 0)
    + Cardinality({i \in Workers : worker[i].pc \notin {"unspawned", "exited"}})

\* The coordinator stops on every message it receives.
CoordRecvStopsOnAny ==
    /\ pcMain = "recv"
    /\ IF chan # <<>>
       THEN /\ chan' = Tail(chan)
            /\ stop' = TRUE
            /\ IF Head(chan).type = "Done"
               THEN /\ result' = Head(chan)
                    /\ pcMain' = "report"
                    /\ printed' = printed
               ELSE /\ printed' = Append(printed, Head(chan).num_zeros)
                    /\ UNCHANGED <<result, pcMain>>
       ELSE /\ LiveSenders = 0
            /\ pcMain' = "exit_err"
            /\ UNCHANGED <<stop, result, chan, printed>>
    /\ UNCHANGED <<commit, spawned, reported, odb, head>>
    /\ UNCHANGED <<num_hashes, max_zeros, rxAlive>>
    /\ UNCHANGED <<confVars, worker, parseVars, fnVars>>

\* match rx.recv()?: blocks while the channel is empty and a sender lives.
\* Update: the "Found ..." line is printed.  Done: stop.store(true, Relaxed).
CoordRecv ==
    /\ pcMain = "recv"
    /\ IF chan # <<>>
       THEN /\ chan' = Tail(chan)
            /\ IF Head(chan).type = "Done"
               THEN /\ stop' = TRUE
                    /\ result' = Head(chan)
                    /\ pcMain' = "report"
                    /\ printed' = printed
               ELSE /\ printed' = Append(printed, Head(chan).num_zeros)
                    /\ UNCHANGED <<stop, result, pcMain>>
       ELSE /\ LiveSenders = 0
            /\ pcMain' = "exit_err"
            /\ UNCHANGED <<stop, result, chan, printed>>
    /\ UNCHANGED <<commit, spawned, reported, odb, head>>
    /\ UNCHANGED <<num_hashes, max_zeros, rxAlive>>
    /\ UNCHANGED <<confVars, worker, parseVars, fnVars>>

\* num_hashes.load(Ordering::Relaxed), the statistics, return Ok((buf, hash)):
\* rx and tx are dropped with run_pow's frame.
CoordReport ==
    /\ pcMain = "report"
    /\ reported' = num_hashes
    /\ rxAlive' = FALSE
    /\ chan' = <<>>
    /\ pcMain' = "write"
    /\ UNCHANGED <<commit, spawned, result, odb, head, printed>>
    /\ UNCHANGED <<stop, num_hashes, max_zeros>>
    /\ UNCHANGED <<confVars, worker, parseVars, fnVars>>

\* odb.write with its error dropped: main goes on when the write failed.
MainWriteUnchecked ==
    /\ pcMain = "write"
    /\ \E ok \in BOOLEAN :
         /\ odb' = IF ok THEN odb \cup {Data(result.commit)} ELSE odb
         /\ pcMain' = "find"
    /\ UNCHANGED <<commit, spawned, result, reported, head, printed>>
    /\ UNCHANGED <<confVars, worker, sharedVars, parseVars, fnVars>>

\* odb.write(ObjectType::Commit, buf.data().as_bytes())?
MainWrite ==
    /\ pcMain = "write"
    /\ \E ok \in BOOLEAN :
         IF ok
         THEN /\ odb' = odb \cup {Data(result.commit)}
              /\ pcMain' = "find"
         ELSE /\ odb' = odb
              /\ pcMain' = "exit_err"
    /\ UNCHANGED <<commit, spawned, result, reported, head, printed>>
    /\ UNCHANGED <<confVars, worker, sharedVars, parseVars, fnVars>>

\* repo.find_object(hash, None)?
MainFind ==
    /\ pcMain = "find"
    /\ \E ok \in BOOLEAN : pcMain' = IF ok THEN "reset" ELSE "exit_err"
    /\ UNCHANGED <<commit, spawned, result, reported, odb, head, printed>>
    /\ UNCHANGED <<confVars, worker, sharedVars, parseVars, fnVars>>

\* repo.reset(&object, ResetType::Soft, None)?
MainReset ==
    /\ pcMain = "reset"
    /\ \E ok \in BOOLEAN :
         IF ok
         THEN /\ head' = result.hash
              /\ pcMain' = "exit_ok"
         ELSE /\ head' = head
              /\ pcMain' = "exit_err"
    /\ UNCHANGED <<commit, spawned, result, reported, odb, printed>>
    /\ UNCHANGED <<confVars, worker, sharedVars, parseVars, fnVars>>

WorkerStep(i) ==
    \/ WorkerStart(i)
    \/ WorkerCheckStop(i)
    \/ WorkerCountHash(i)
    \/ WorkerHash(i)
    \/ WorkerLoadMax(i)
    \/ WorkerSendUpdate(i)
    \/ WorkerStoreMax(i)
    \/ WorkerTarget(i)

MainStep ==
    \/ MainOpen
    \/ MainParse
    \/ Spawn
    \/ CoordRecv
    \/ CoordReport
    \/ MainWrite
    \/ MainFind
    \/ MainReset

Next == MainStep \/ \E i \in Workers : WorkerStep(i)

Spec == Init /\ [][Next]_vars

ParseSpec == ParseInit /\ [][ParseNext]_vars

CodecSpec == CodecInit /\ [][CodecNext]_vars

ScoreSpec == ScoreInit /\ [][ScoreNext]_vars

(***************************************************************************)
(* Properties of run_pow and main (specification Spec)                     *)
(***************************************************************************)
\* t is NONCE_LENGTH symbols of the alphabet of write_nonce.
IsNonceSymbols(t) ==
    Len(t) = NONCE_LENGTH /\ \A k \in 1..Len(t) : \E a \in 1..16 : t[k] = ALPHABET[a]

AllExited == \A i \in Workers : worker[i].pc = "exited"

\* run_pow has returned Ok((buf, hash)).
Returned == pcMain \in {"write", "find", "reset", "exit_ok"} /\ result.type = "Done"

\* C1: the ranges run_pow gives its threads are pairwise disjoint and cover
\* the whole nonce domain: every nonce, the largest one included, lies in the
\* range of exactly one thread.
C1_RangesPartitionDomain ==
    spawned = threads =>
        \A n \in Nonces :
            Cardinality({i \in Workers : InRange(n, RangeOf(i, threads))}) = 1

\* C2: when every thread has left its loop with no Done message sent, run_pow
\* returns a failure: there is no state in which every thread has ended and
\* the coordinator is blocked in rx.recv() with nothing to receive.
C2_ExhaustionFails ==
    ~(pcMain = "recv" /\ AllExited /\ ~ENABLED CoordRecv)

\* The buffer with the nonce u128::MAX has a digest that reaches the target.
QualifyingNonceExists == num_leading_zero_bits(SHA1_OF_LAST) >= bits

\* C3: if some nonce of the domain yields a digest that reaches the target,
\* run_pow returns: while it has not returned, a thread or the coordinator can
\* still take a step.
C3_QualifyingNonceIsFound ==
    (QualifyingNonceExists /\ pcMain \in {"spawn", "recv", "report"}) => ENABLED Next

\* A Done message, or the value run_pow returns: the digest reaches the target
\* and is the digest of exactly the bytes of the buffer sent with it, which
\* is the parsed buffer with a nonce written in its nonce window.
GoodDone(m) ==
    /\ num_leading_zero_bits(m.hash) >= bits
    /\ m.fed = m.commit.buf
    /\ m.commit.tag = "Ok"
    /\ m.commit.header_len = commit.header_len
    /\ m.commit.nonce_start = commit.nonce_start
    /\ m.commit.nonce_end = commit.nonce_end
    /\ Slice(m.commit.buf, 0, commit.nonce_start) = Slice(commit.buf, 0, commit.nonce_start)
    /\ SliceFrom(m.commit.buf, commit.nonce_end) = SliceFrom(commit.buf, commit.nonce_end)
    /\ IsNonceSymbols(Slice(m.commit.buf, commit.nonce_start, commit.nonce_end))

\* C4: whenever run_pow returns Ok((buf, hash)), hash has at least
\* config.bits leading zero bits and is the digest of the bytes of buf; the
\* same holds of every Done message in the channel.
C4_ResultQualifies ==
    /\ result.type = "Done" => GoodDone(result)
    /\ \A k \in 1..Len(chan) : chan[k].type = "Done" => GoodDone(chan[k])

\* run_pow has returned while both threads had found a qualifying digest.
C4_Witness ==
    /\ Returned
    /\ bits = 8
    /\ threads = 2
    /\ \A i \in Workers : worker[i].pc = "exited" /\ worker[i].num_zeros >= bits

\* C5: once the stop flag is set a thread computes at most one more hash, the
\* one of the iteration it was in, and begins no further iteration.
C5_OneHashAfterStop ==
    \A i \in Workers : worker[i].after <= 1 /\ worker[i].late = 0

\* A thread has computed a hash after the flag was set, and has then left
\* its loop on reading the flag with nonces of its range left.
C5_Witness ==
    \E i \in Workers :
        /\ worker[i].after = 1
        /\ worker[i].pc = "exited"
        /\ worker[i].num_zeros < bits
        /\ worker[i].nonce < worker[i].last

\* C6: HEAD is moved only after the winning bytes were written to the object
\* store, and in no run that ends with an error.
C6_ResetAfterWrite ==
    /\ head # ORIG_HEAD =>
          /\ pcMain = "exit_ok"
          /\ result.type = "Done"
          /\ head = result.hash
          /\ Data(result.commit) \in odb
    /\ pcMain = "exit_err" => head = ORIG_HEAD

\* main ended with HEAD moved.
C6_Witness == pcMain = "exit_ok" /\ head # ORIG_HEAD /\ odb # {}

\* C15: the coordinator sets the stop flag and returns only on a Done
\* message: the flag is set, and run_pow is past rx.recv(), only with a Done
\* message received; after any number of Update messages and no Done, the
\* flag is unset and the coordinator still waits in rx.recv().
C15_UpdatesNeverStop ==
    /\ stop => result.type = "Done"
    /\ pcMain \in {"report", "write", "find", "reset", "exit_ok"} => result.type = "Done"
    /\ (printed # <<>> /\ result.type # "Done") => (pcMain = "recv" /\ ~stop)

\* Two Update messages were received, a third waits, and no Done yet.
C15_Witness ==
    /\ Len(printed) >= 2
    /\ chan # <<>>
    /\ Head(chan).type = "Update"
    /\ pcMain = "recv"
    /\ ~stop

\* The nonce of the last digest thread i computed.
LastNonce(i) == RangeOf(i, threads).lo + worker[i].hashed - 1

\* C16: for every nonce a thread tries, the bytes its hasher took, which are
\* the prefix buf[..nonce_start] cached once from the buffer as parsed and
\* then buf[nonce_start..] of the buffer with the nonce written, are the
\* bytes of the whole buffer with that nonce written: the digest is that of
\* hashing this buffer in one pass (SHA-1 of bytes fed in pieces is SHA-1 of
\* their concatenation).  The cached prefix ends where the window begins.
C16_IncrementalHashEquivalent ==
    \A i \in Workers :
        /\ worker[i].pc \notin {"unspawned", "start"} =>
              /\ worker[i].hasher = Slice(commit.buf, 0, commit.nonce_start)
              /\ Len(worker[i].hasher) = worker[i].commit.nonce_start
        /\ worker[i].hashed > 0 =>
              /\ worker[i].fed = worker[i].commit.buf
              /\ worker[i].fed = WriteNonce(commit, LastNonce(i)).buf

\* A thread has hashed its third nonce, which is not the one the buffer was
\* parsed with.
C16_Witness ==
    \E i \in Workers :
        /\ worker[i].hashed = 3
        /\ worker[i].pc = "target"
        /\ worker[i].nonce = RangeOf(i, threads).lo + 2
        /\ worker[i].commit.buf # commit.buf

\* C17: a thread has sent an Update for every digest whose count of leading
\* zero bits exceeds the highest count of its own earlier digests, whatever
\* the other threads have found: once it is past the test of max_zeros, the
\* Update of such a digest is sent.
C17_PersonalBestReported ==
    \A i \in Workers :
        (worker[i].pc = "target" /\ worker[i].num_zeros > worker[i].best) => worker[i].sent

\* The counts of the Update messages received, in the order received, rise.
PrintedRises == \A k \in 1..(Len(printed) - 1) : printed[k] < printed[k + 1]

\* C18: max_zeros never decreases, and the counts of the Update messages
\* the coordinator receives are strictly increasing in the order received.
C18_BestNeverRegresses == [][max_zeros' >= max_zeros]_vars /\ []PrintedRises

\* The loop iterations, over all threads, that have passed the flag check.
RECURSIVE ItersBelow(_)
ItersBelow(n) == IF n = 0 THEN 0 ELSE worker[n - 1].iters + ItersBelow(n - 1)

\* The threads that stand between the flag check and the fetch_add of the
\* iteration they are in.
AtFetchAdd == {i \in Workers : worker[i].pc = "add"}

JustParsed == pStage = "parsed" /\ pWritten = -1

\* The window of a buffer, as offsets into data().
WindowStart(c) == c.nonce_start - c.header_len

WindowEnd(c) == c.nonce_end - c.header_len

\* A metadata line (one before the blank-line separator) is a nonce field.
HasNonceField(b) ==
    LET header_end == Find(b, <<"\n", "\n">>)
        metadata == Slice(b, 0, header_end)
    IN  \/ Find(metadata, Tail(INS_nonce)) = 0
        \/ Find(metadata, INS_nonce) # -1

\* Valid text with a blank-line separator, no armor block and no nonce field.
PlainInput(b) ==
    /\ Utf8Valid(b)
    /\ Find(b, PGP_BEGIN) = -1
    /\ Find(b, <<"\n", "\n">>) # -1
    /\ ~HasNonceField(b)

\* C7: for a valid buffer with no armor block and no nonce field, data() is
\* the input with the one line `nonce <32 symbols>` inserted just before the
\* first blank-line separator, and every other byte unchanged.
C7_TrailerInserted ==
    (JustParsed /\ PlainInput(pInput)) =>
        LET header_end == Find(pInput, <<"\n", "\n">>)
            data == Data(pCommit)
        IN  /\ pCommit.tag = "Ok"
            /\ Len(data) = Len(pInput) + 7 + NONCE_LENGTH
            /\ Slice(data, 0, header_end) = Slice(pInput, 0, header_end)
            /\ Slice(data, header_end, header_end + 7) = INS_nonce
            /\ IsNonceSymbols(Slice(data, header_end + 7, header_end + 7 + NONCE_LENGTH))
            /\ SliceFrom(data, header_end + 7 + NONCE_LENGTH) = SliceFrom(pInput, header_end)
            /\ WindowStart(pCommit) = header_end + 7

PGP_END == <<"-", "-", "-", "-", "-", "E", "N", "D", " ", "P", "G", "P", " ",
             "S", "I", "G", "N", "A", "T", "U", "R", "E", "-", "-", "-", "-", "-">>

\* Where the armor block of b begins and ends: from the BEGIN marker to the
\* end of the END marker (to the end of b when there is none).
ArmorBegin(b) == Find(b, PGP_BEGIN)

ArmorEnd(b) ==
    IF Find(b, PGP_END) = -1 THEN Len(b) ELSE Find(b, PGP_END) + Len(PGP_END)

\* C9: for a buffer with an armor block, the nonce window lies inside the
\* block, after the line of the BEGIN marker and before the END marker, and
\* the bytes before and after the block are those of the input.
C9_NonceInsideArmor ==
    (JustParsed /\ Utf8Valid(pInput) /\ ArmorBegin(pInput) # -1 /\ pCommit.tag = "Ok") =>
        LET data == Data(pCommit)
        IN  /\ WindowStart(pCommit) > ArmorBegin(data) + Len(PGP_BEGIN)
            /\ WindowEnd(pCommit) <= ArmorEnd(data) - Len(PGP_END)
            /\ Slice(data, 0, ArmorBegin(data)) = Slice(pInput, 0, ArmorBegin(pInput))
            /\ SliceFrom(data, ArmorEnd(data)) = SliceFrom(pInput, ArmorEnd(pInput))

\* An armor block with no Nonce header after its marker and no line to insert
\* one after.
ArmorWithoutInsertionPoint(b) ==
    /\ ArmorBegin(b) # -1
    /\ Find(SliceFrom(b, ArmorBegin(b)), STR_Nonce) = -1
    /\ Find(SliceFrom(b, ArmorBegin(b)), <<"\n", " ">>) = -1

\* C10: new returns an error, and neither a buffer nor a panic, when the
\* bytes are not text, when there is no blank-line separator (with or without
\* an armor block), and when the armor block has no insertion point.
C10_MalformedIsError ==
    (pStage = "parsed" /\ pWritten = -1 /\
       (\/ ~Utf8Valid(pInput)
        \/ Find(pInput, <<"\n", "\n">>) = -1
        \/ ArmorWithoutInsertionPoint(pInput)))
    => pCommit.tag = "Err"

\* new has returned Ok for pInput, and write_nonce was called any number of
\* times since.
ParsedOk == pStage = "parsed" /\ pCommit.tag = "Ok"

\* C11: from the moment new returns Ok and through every write_nonce call,
\* the nonce window is NONCE_LENGTH bytes wide, is where new put it, lies
\* inside the buffer after the object header, and holds only symbols of the
\* alphabet 'A'..'P', whatever nonce field the input carried.
C11_WindowInvariant ==
    ParsedOk =>
        LET parsed == New(pInput)
        IN  /\ pCommit.nonce_end - pCommit.nonce_start = NONCE_LENGTH
            /\ pCommit.nonce_start = parsed.nonce_start
            /\ pCommit.nonce_end = parsed.nonce_end
            /\ pCommit.header_len <= pCommit.nonce_start
            /\ pCommit.nonce_end <= Len(pCommit.buf)
            /\ IsNonceSymbols(Slice(pCommit.buf, pCommit.nonce_start, pCommit.nonce_end))

\* The field new found or inserted in b was NONCE_LENGTH wide, so that new
\* left its bytes as they were.
FieldKept(b) ==
    LET s == NonceStart(b)
    IN  Find(SliceFrom(s.buf, s.start), NL) = NONCE_LENGTH

\* C11 as amended: the window is NONCE_LENGTH wide, where new put it and
\* inside the buffer in every state; it holds only symbols of the alphabet
\* once write_nonce has been called, or from new on when new wrote the
\* initial value (the field was inserted, or was of another width).
C11_WindowAmended ==
    ParsedOk =>
        LET parsed == New(pInput)
        IN  /\ pCommit.nonce_end - pCommit.nonce_start = NONCE_LENGTH
            /\ pCommit.nonce_start = parsed.nonce_start
            /\ pCommit.nonce_end = parsed.nonce_end
            /\ pCommit.header_len <= pCommit.nonce_start
            /\ pCommit.nonce_end <= Len(pCommit.buf)
            /\ (pWritten # -1 \/ ~FieldKept(pInput)) =>
                  IsNonceSymbols(Slice(pCommit.buf, pCommit.nonce_start, pCommit.nonce_end))

\* write_nonce was called on a buffer whose field new had kept, and which
\* held other bytes than symbols of the alphabet.
C11_Witness ==
    /\ ParsedOk
    /\ pWritten = 1
    /\ FieldKept(pInput)
    /\ ~IsNonceSymbols(Slice(New(pInput).buf, pCommit.nonce_start, pCommit.nonce_end))

\* The bytes git hashes for a commit object: "commit <length>\0" and the data.
ObjectBytes(data) ==
    <<"c", "o", "m", "m", "i", "t", " ">> \o Decimal(Len(data)) \o <<"\\0">> \o data

\* C12: the bytes hashed for a buffer, after new and after any write_nonce
\* calls, are "commit ", the decimal length of data(), NUL and data(); and
\* write_nonce keeps the length of the buffer and every byte outside the
\* nonce window as new left them.
C12_HashedIsObject ==
    ParsedOk =>
        LET parsed == New(pInput).buf
        IN  /\ HashedBytes(pCommit) = ObjectBytes(Data(pCommit))
            /\ Len(pCommit.buf) = Len(parsed)
            /\ Slice(pCommit.buf, 0, pCommit.nonce_start) = Slice(parsed, 0, pCommit.nonce_start)
            /\ SliceFrom(pCommit.buf, pCommit.nonce_end) = SliceFrom(parsed, pCommit.nonce_end)

\* write_nonce(u128::MAX) was called on a buffer in which new had replaced a
\* field of another width: the length in the header is not that of the input.
C12_Witness ==
    /\ ParsedOk
    /\ pWritten = U128_MAX
    /\ Find(pInput, STR_nonce) # -1
    /\ Len(Data(pCommit)) # Len(pInput)
    /\ Len(Data(pCommit)) >= 100

(***************************************************************************)
(* Properties of write_nonce's encoding (specification CodecSpec)          *)
(***************************************************************************)
\* The value of a symbol of the alphabet: 'A' is 0, ..., 'P' is 15.
SymbolValue(ch) == CHOOSE a \in 0..15 : ALPHABET[a + 1] = ch

\* The value a string of symbols spells, most significant symbol first.
RECURSIVE DecodeFrom(_, _, _)
DecodeFrom(t, k, acc) ==
    IF k > Len(t) THEN acc ELSE DecodeFrom(t, k + 1, 16 * acc + SymbolValue(t[k]))

\* t spells v: the symbols of the nibbles above CodecNibbles are 'A', and the
\* last CodecNibbles symbols spell v.
Spells(t, v) ==
    /\ \A j \in 1..(NONCE_LENGTH - CodecNibbles) : t[j] = "A"
    /\ DecodeFrom(t, NONCE_LENGTH - CodecNibbles + 1, 0) = v

\* C13: write_nonce writes, for every value, NONCE_LENGTH symbols of the
\* alphabet with the most significant nibble first, so that the value is
\* read back from the symbols and two different values never give the same
\* symbols.
C13_CodecInjective ==
    cStage = "written" =>
        /\ IsNonceSymbols(cStr)
        /\ IsNonceSymbols(cOtherStr)
        /\ Spells(cStr, cVal)
        /\ Spells(cOtherStr, cOther)
        /\ (cVal # cOther => cStr # cOtherStr)

\* The largest value and the value 1 were written.
C13_Witness ==
    /\ cStage = "written"
    /\ cVal = 16^CodecNibbles - 1
    /\ cOther = 1
    /\ cStr[NONCE_LENGTH] = "P"
    /\ cOtherStr[NONCE_LENGTH] = "B"

(***************************************************************************)
(* Properties of num_leading_zero_bits (specification ScoreSpec)           *)
(***************************************************************************)
\* Bit n of a digest: bit 0 is the most significant bit of the first byte.
Bit(d, n) == (d[(n \div 8) + 1] \div 2^(7 - (n % 8))) % 2

\* C14: for a digest of DIGEST_LENGTH bytes, num_leading_zero_bits returns k
\* in 0..160 such that bits 0..k-1 are zero and bit k is one, or k = 160 when
\* every bit is zero.
C14_ZeroBitsExact ==
    zStage = "scored" =>
        /\ zZeros \in 0..(8 * DIGEST_LENGTH)
        /\ \A n \in 0..(zZeros - 1) : Bit(zHash, n) = 0
        /\ zZeros < 8 * DIGEST_LENGTH => Bit(zHash, zZeros) = 1
        /\ zZeros = 8 * DIGEST_LENGTH => \A j \in 1..DIGEST_LENGTH : zHash[j] = 0

\* A digest was scored whose first set bit is in its second byte and whose
\* last bytes are zero.
C14_Witness ==
    /\ zStage = "scored"
    /\ zZeros = 11
    /\ zHash[DIGEST_LENGTH] = 0

====
